---- MODULE Spec2Model ----
(***************************************************************************)
(* Model of pyLib/optics.py: the boundary bisection search                 *)
(* (closest_stable_unstable), the septum crossing fit                      *)
(* (separatrix_at_septum), the angular sort of the stable boundary         *)
(* (sort_stable_boundary_coordinates) and the fixed-point localisation     *)
(* (find_fixed_points).                                                    *)
(*                                                                         *)
(* Numbers.  Positions are IEEE doubles.  Inside one binade (and in the    *)
(* whole subnormal range) doubles are the integer multiples of one         *)
(* spacing, so a position is modelled as an integer count of spacings.     *)
(* lo + hi is then exact or rounds to the nearest even multiple of two     *)
(* spacings, and the division by 2 is exact: the midpoint is (lo+hi)/2     *)
(* rounded half-to-even.  A precision is counted in half spacings, so      *)
(* that a positive precision finer than the spacing exists.                *)
(***************************************************************************)
EXTENDS Integers, Sequences, FiniteSets, TLC

(* ------------------------------ bounds --------------------------------- *)

\* grid spacings per unit of position: the default interval [0, 1] is <<0, Scale>>
Scale == 4
\* largest precision drawn, in half spacings
MaxPrecision == 4
\* turns recorded by one track
NumTurns == 2
\* cap on the logged build/track calls of one call of the search
MaxCalls == 6
\* longest trajectory record given to separatrix_at_septum
MaxTurns == 7
\* most boundary samples given to sort_stable_boundary_coordinates
MaxSamples == 3
\* most samples given to find_fixed_points
MaxFPSamples == 4

VARIABLES
  pc,              \* position of closest_stable_unstable: idle, loop, update, done
  defaultXSearch,  \* the list object bound to the default of parameter xSearch
  callerXSearch,   \* the list object the caller passed as xSearch
  omitted,         \* TRUE when the call omitted xSearch (xSearch is the default object)
  xArg,            \* value of the xSearch argument as the call was made
  myLine,          \* the tracking engine passed as myLine
  xBoundary,       \* argument xBoundary
  absPrecisio,     \* argument absPrecisio, in half spacings
  x_test,          \* local x_test
  rec_test,        \* local rec_test: recorded positions of the last track
  ret,             \* value of the returned list when the call returned
  entry,           \* history: value of xSearch when the call was entered
  calls,           \* history: positions built and tracked by this call, in order
  stablePts,       \* history: midpoints this call classified stable
  unstablePts,     \* history: midpoints this call classified unstable
  prevDefault,     \* history: the previous completed call that omitted xSearch
  s_pc,            \* separatrix_at_septum: call, done
  rec_sep,         \* argument rec_sep: [x, px], the rows rec_sep.x[0, :] and rec_sep.px[0, :]
  s_xBoundary,     \* argument xBoundary of separatrix_at_septum
  separatrix_results,  \* what separatrix_at_septum returned or raised
  t_pc,            \* sort_stable_boundary_coordinates: call, sorted, resorted
  tbt_triang,      \* argument tbt_triang: [x, px]
  nc_tbt_triang,   \* argument nc_tbt_triang: [x_norm, px_norm]
  sorted_coordinates,  \* the dictionary returned by the sort
  resorted_coordinates, \* the dictionary returned by sorting the returned arrays again
  f_pc,            \* find_fixed_points: call, done
  fp_tbt_triang,   \* argument tbt_triang of find_fixed_points: [x, px]
  fp_nc_tbt_triang, \* argument nc_tbt_triang of find_fixed_points: [z_norm]
  threshold,       \* argument threshold, the fraction <<numerator, denominator>>
  fixed_points     \* the dictionary find_fixed_points returned

bisVars == <<pc, defaultXSearch, callerXSearch, omitted, xArg, myLine, xBoundary,
             absPrecisio, x_test, rec_test, ret, entry, calls, stablePts,
             unstablePts, prevDefault>>

sepVars == <<s_pc, rec_sep, s_xBoundary, separatrix_results>>

sortVars == <<t_pc, tbt_triang, nc_tbt_triang, sorted_coordinates, resorted_coordinates>>

fpVars == <<f_pc, fp_tbt_triang, fp_nc_tbt_triang, threshold, fixed_points>>

otherVars == <<sepVars, sortVars, fpVars>>

vars == <<bisVars, sepVars, sortVars, fpVars>>

(* --------------------------- numpy helpers ------------------------------ *)

Abs(a) == IF a < 0 THEN -a ELSE a

\* a[j] for a one-dimensional array a (held as a sequence) and a 0-based
\* index j: an index outside -len..len-1 raises IndexError, ...
NpInRange(a, j) == j >= -Len(a) /\ j < Len(a)

\* ... and a negative index in range counts from the end
NpGet(a, j) == IF j >= 0 THEN a[j + 1] ELSE a[Len(a) + j + 1]

Perms(n) == {p \in [1..n -> 1..n] : \A i, j \in 1..n : p[i] = p[j] => i = j}

\* a[i_sorted]: fancy indexing with an index array
Take(a, idx) == [k \in 1..Len(idx) |-> a[idx[k]]]

(* -------------------------- separatrix_at_septum ----------------------- *)

SepNone == [status |-> "none"]

\* np.argmin: the 0-based index of the first minimum
ArgMin(d) ==
  CHOOSE i \in 0..(Len(d) - 1) :
    /\ \A j \in 0..(Len(d) - 1) : d[i + 1] <= d[j + 1]
    /\ \A j \in 0..(i - 1) : d[i + 1] < d[j + 1]

\* np.abs(x_separ - xBoundary)
Distances(x, xB) == [i \in 1..Len(x) |-> Abs(x[i] - xB)]

PolyFit1Swapped(xa, xb, ya, yb) ==
  [num |-> xa - xb, den |-> ya - yb, x0 |-> xa, y0 |-> ya]

\* np.polyfit([xa, xb], [ya, yb], deg=1): the line through the two points, as
\* the exact slope num/den and a point (x0, y0) on it; den = 0 (equal
\* abscissae) is the rank-deficient fit
PolyFit1(xa, xb, ya, yb) ==
  [num |-> ya - yb, den |-> xa - xb, x0 |-> xa, y0 |-> ya]

\* np.polyval(poly_sep, x) as the fraction <<numerator, denominator>>
PolyVal(poly, x) == <<poly.num * (x - poly.x0) + poly.y0 * poly.den, poly.den>>

\* the body of separatrix_at_septum, lines 136-160
SeparatrixAtSeptum(rec, xB) ==
  LET x_separ  == rec.x
      px_separ == rec.px
      i_septum == ArgMin(Distances(x_separ, xB))
      xa == NpGet(x_separ, i_septum + 3)
      xb == NpGet(x_separ, i_septum - 3)
      ya == NpGet(px_separ, i_septum + 3)
      yb == NpGet(px_separ, i_septum - 3)
  IN IF ~(/\ NpInRange(x_separ, i_septum + 3) /\ NpInRange(x_separ, i_septum - 3)
          /\ NpInRange(px_separ, i_septum + 3) /\ NpInRange(px_separ, i_septum - 3))
       THEN [status |-> "IndexError"]
     ELSE LET poly_sep == PolyFit1(xa, xb, ya, yb)
          IN IF poly_sep.den = 0
               THEN [status |-> "rank_deficient", closer_turn |-> i_septum]
             ELSE [status |-> "ok",
                   slope |-> <<poly_sep.num, poly_sep.den>>,
                   px_at_septum |-> PolyVal(poly_sep, xB),
                   closer_turn |-> i_septum,
                   poly_sep |-> poly_sep]

Slopes == {-1, 2}

Intercepts == {0, 1}

\* recorded positions, and septum positions among them
SepPositions == 0..2

SeptumPositions == {1, 2}

\* a trajectory record: the given positions, momenta on the line
\* px = k*x + c with the sample at index off (if any) pushed off the line
SepRecord(xs, k, c, off) ==
  [x  |-> xs,
   px |-> [i \in 1..Len(xs) |-> k * xs[i] + c + (IF i = off THEN 1 ELSE 0)]]

SepIdle ==
  /\ s_pc = "idle"
  /\ rec_sep = [x |-> <<0>>, px |-> <<0>>]
  /\ s_xBoundary = 0
  /\ separatrix_results = SepNone

SepInit ==
  /\ s_pc = "call"
  /\ \E n \in 1..MaxTurns :
       \E xs \in [1..n -> SepPositions], k \in Slopes, c \in Intercepts, off \in 0..n :
         rec_sep = SepRecord(xs, k, c, off)
  /\ s_xBoundary \in SeptumPositions
  /\ separatrix_results = SepNone

SepCall ==
  /\ s_pc = "call"
  /\ separatrix_results' = SeparatrixAtSeptum(rec_sep, s_xBoundary)
  /\ s_pc' = "done"
  /\ UNCHANGED <<rec_sep, s_xBoundary>>
  /\ UNCHANGED <<bisVars, sortVars, fpVars>>

(* -------------------- sort_stable_boundary_coordinates ----------------- *)

\* np.angle(x + 1j*y) = arctan2(y, x), a value in (-pi, pi], held exactly as
\* the point with the quarter of the range it falls in:
\*   0: (-pi, 0)   1: 0   2: (0, pi)   3: pi
Theta(x, y) ==
  [h |-> IF y < 0 THEN 0 ELSE IF y > 0 THEN 2 ELSE IF x >= 0 THEN 1 ELSE 3,
   x |-> x, y |-> y]

\* a < b for two angles: inside an open half plane the cross product decides
ThetaLess(a, b) ==
  \/ a.h < b.h
  \/ a.h = b.h /\ a.h \in {0, 2} /\ a.x * b.y - a.y * b.x > 0

\* np.argsort(theta) (default kind, not stable): an index array that puts
\* theta in non-decreasing order; the order among equal angles is whatever
\* the build's sort produces
ArgSorts(theta) ==
  {p \in Perms(Len(theta)) :
     \A k \in 1..(Len(theta) - 1) : ~ThetaLess(theta[p[k + 1]], theta[p[k]])}

ThetaTriangSwapped(nc) == [i \in 1..Len(nc.x_norm) |-> Theta(nc.px_norm[i], nc.x_norm[i])]

\* theta_triang = np.angle(x_norm_triang + 1j * px_norm_triang)
ThetaTriang(nc) == [i \in 1..Len(nc.x_norm) |-> Theta(nc.x_norm[i], nc.px_norm[i])]

SortedCoordinatesPxUnsorted(tbt, nc, i_sorted) ==
  [x_triang       |-> Take(tbt.x, i_sorted),
   px_triang      |-> tbt.px,
   x_norm_triang  |-> Take(nc.x_norm, i_sorted),
   px_norm_triang |-> Take(nc.px_norm, i_sorted)]

\* lines 241-246
SortedCoordinates(tbt, nc, i_sorted) ==
  [x_triang       |-> Take(tbt.x, i_sorted),
   px_triang      |-> Take(tbt.px, i_sorted),
   x_norm_triang  |-> Take(nc.x_norm, i_sorted),
   px_norm_triang |-> Take(nc.px_norm, i_sorted)]

\* the results sort_stable_boundary_coordinates can return, lines 230-248
SortStableBoundaryCoordinates(tbt, nc) ==
  {SortedCoordinates(tbt, nc, i_sorted) : i_sorted \in ArgSorts(ThetaTriang(nc))}

PhysPoints == {<<0, 1>>, <<1, 0>>}

\* normalized samples: two of angle 0 (one the origin), one each of angle
\* pi/2, pi, -pi/2 and -3*pi/4
NormPoints == {<<1, 0>>, <<0, 0>>, <<0, 1>>, <<-1, 0>>, <<0, -1>>, <<-1, -1>>}

SortNone == [x_triang |-> <<>>, px_triang |-> <<>>, x_norm_triang |-> <<>>,
             px_norm_triang |-> <<>>]

SortIdle ==
  /\ t_pc = "idle"
  /\ tbt_triang = [x |-> <<0>>, px |-> <<0>>]
  /\ nc_tbt_triang = [x_norm |-> <<0>>, px_norm |-> <<0>>]
  /\ sorted_coordinates = SortNone
  /\ resorted_coordinates = SortNone

SortInit ==
  /\ t_pc = "call"
  /\ \E n \in 1..MaxSamples :
       \E ph \in [1..n -> PhysPoints], nm \in [1..n -> NormPoints] :
         /\ tbt_triang = [x |-> [i \in 1..n |-> ph[i][1]], px |-> [i \in 1..n |-> ph[i][2]]]
         /\ nc_tbt_triang = [x_norm  |-> [i \in 1..n |-> nm[i][1]],
                              px_norm |-> [i \in 1..n |-> nm[i][2]]]
  /\ sorted_coordinates = SortNone
  /\ resorted_coordinates = SortNone

\* a call of sort_stable_boundary_coordinates on the given records
SortCall ==
  /\ t_pc = "call"
  /\ sorted_coordinates' \in SortStableBoundaryCoordinates(tbt_triang, nc_tbt_triang)
  /\ t_pc' = "sorted"
  /\ UNCHANGED <<tbt_triang, nc_tbt_triang, resorted_coordinates>>
  /\ UNCHANGED <<bisVars, sepVars, fpVars>>

\* a second call, on the arrays the first call returned
SortAgain ==
  /\ t_pc = "sorted"
  /\ resorted_coordinates' \in
       SortStableBoundaryCoordinates(
         [x |-> sorted_coordinates.x_triang, px |-> sorted_coordinates.px_triang],
         [x_norm  |-> sorted_coordinates.x_norm_triang,
          px_norm |-> sorted_coordinates.px_norm_triang])
  /\ t_pc' = "resorted"
  /\ UNCHANGED <<tbt_triang, nc_tbt_triang, sorted_coordinates>>
  /\ UNCHANGED <<bisVars, sepVars, fpVars>>

(* ---------------------------- find_fixed_points ------------------------ *)

(***************************************************************************)
(* Normalized samples are taken on the lattice a + b*w, w = exp(2*pi*i/3), *)
(* on which the rotations by +-120 degrees of lines 286 and 289 are exact: *)
(* the sample <<a, b>> is x_norm = a - b/2, px_norm = b*sqrt(3)/2, and its *)
(* squared amplitude |z|^2 is a^2 - a*b + b^2.  Amplitudes and distances   *)
(* are compared through their squares.                                     *)
(***************************************************************************)

\* np.abs(z) ** 2
Norm2(z) == z[1] * z[1] - z[1] * z[2] + z[2] * z[2]

ZSub(z, c) == <<z[1] - c[1], z[2] - c[2]>>

\* z * np.exp(1j * 2 / 3 * np.pi)
RotPlus(z) == <<-z[2], z[1] - z[2]>>

\* z * np.exp(-1j * 2 / 3 * np.pi)
RotMinus(z) == <<z[2] - z[1], -z[1]>>

\* np.abs(z - c) < threshold * r, for r given by its square r2
Within(z, c, th, r2) == Norm2(ZSub(z, c)) * th[2] * th[2] < th[1] * th[1] * r2

ArgMaxLast(r) ==
  CHOOSE i \in 0..(Len(r) - 1) :
    /\ \A j \in 0..(Len(r) - 1) : r[i + 1] >= r[j + 1]
    /\ \A j \in (i + 1)..(Len(r) - 1) : r[i + 1] > r[j + 1]

\* np.argmax: the 0-based index of the first maximum
ArgMax(r) ==
  CHOOSE i \in 0..(Len(r) - 1) :
    /\ \A j \in 0..(Len(r) - 1) : r[i + 1] >= r[j + 1]
    /\ \A j \in 0..(i - 1) : r[i + 1] > r[j + 1]

\* a[[i, j, k]] with 0-based indices
Take0(a, idx) == [k \in 1..Len(idx) |-> a[idx[k] + 1]]

Unmasked(r, mask) == r

\* r_triang_norm * mask: a masked-out amplitude becomes 0
Masked(r, mask) == [i \in 1..Len(r) |-> IF mask[i] THEN r[i] ELSE 0]

\* lines 274-290: the indices i_fp1, i_fp2, i_fp3
FixedPointIndices(z_triang_norm, th) ==
  LET r_triang_norm == [i \in 1..Len(z_triang_norm) |-> Norm2(z_triang_norm[i])]
      i_fp1 == ArgMax(r_triang_norm)
      z_fp1 == z_triang_norm[i_fp1 + 1]
      r_fp1 == Norm2(z_fp1)
      mask_fp2 == [i \in 1..Len(z_triang_norm) |->
                     Within(z_triang_norm[i], RotPlus(z_fp1), th, r_fp1)]
      i_fp2 == ArgMax(Masked(r_triang_norm, mask_fp2))
      mask_fp3 == [i \in 1..Len(z_triang_norm) |->
                     Within(z_triang_norm[i], RotMinus(z_fp1), th, r_fp1)]
      i_fp3 == ArgMax(Masked(r_triang_norm, mask_fp3))
  IN <<i_fp1, i_fp2, i_fp3>>

\* lines 293-304: the dictionary built from the three indices; x_norm_fp and
\* px_norm_fp are the real and imaginary parts of z_norm_fp
FixedPoints(tbt, nc, idx) ==
  [z_norm_fp |-> Take0(nc.z_norm, idx),
   x_fp      |-> Take0(tbt.x, idx),
   px_fp     |-> Take0(tbt.px, idx)]

\* find_fixed_points, lines 273-306
FindFixedPoints(tbt, nc, th) ==
  FixedPoints(tbt, nc, FixedPointIndices(nc.z_norm, th))

\* amplitude 6 at 0, 120 and 240 degrees
P0 == <<6, 0>>

P120 == <<0, 6>>

P240 == <<-6, -6>>

\* the three, a sample next to P120 and two samples of near-zero amplitude
FPNormPoints == {P0, P120, P240, <<0, 5>>, <<0, 0>>, <<1, 0>>}

FPPhysPoints == {<<0, 1>>, <<1, 0>>}

\* the default 0.2, and 0.6
Thresholds == {<<1, 5>>, <<3, 5>>}

FPNone == [z_norm_fp |-> <<>>, x_fp |-> <<>>, px_fp |-> <<>>]

FPIdle ==
  /\ f_pc = "idle"
  /\ fp_tbt_triang = [x |-> <<0>>, px |-> <<0>>]
  /\ fp_nc_tbt_triang = [z_norm |-> <<<<0, 0>>>>]
  /\ threshold = <<1, 5>>
  /\ fixed_points = FPNone

FPInit ==
  /\ f_pc = "call"
  /\ \E n \in 1..MaxFPSamples :
       \E ph \in [1..n -> FPPhysPoints], nm \in [1..n -> FPNormPoints] :
         /\ fp_tbt_triang = [x |-> [i \in 1..n |-> ph[i][1]], px |-> [i \in 1..n |-> ph[i][2]]]
         /\ fp_nc_tbt_triang = [z_norm |-> nm]
  /\ threshold \in Thresholds
  /\ fixed_points = FPNone

FPCall ==
  /\ f_pc = "call"
  /\ fixed_points' = FindFixedPoints(fp_tbt_triang, fp_nc_tbt_triang, threshold)
  /\ f_pc' = "done"
  /\ UNCHANGED <<fp_tbt_triang, fp_nc_tbt_triang, threshold>>
  /\ UNCHANGED <<bisVars, sepVars, sortVars>>

(* ------------------------- closest_stable_unstable --------------------- *)

Grid == 0..Scale

\* def closest_stable_unstable(..., xSearch=[0, 1], ...): the default's initial value
DefaultInterval == <<0, Scale>>

Intervals == {<<lo, hi>> : lo \in Grid, hi \in Grid} \ {iv \in Grid \X Grid : iv[1] > iv[2]}

Lines == {"hold", "mirror", "any"}

NoCall == [line |-> "none"]

\* (xSearch[0] + xSearch[1]) / 2 in double arithmetic: round half to even
MidPoint(lo, hi) ==
  LET s == lo + hi
      f == s \div 2
  IN IF s % 2 = 0 THEN f
     ELSE IF f % 2 = 0 THEN f ELSE f + 1

\* xSearch[1] - xSearch[0] > absPrecisio
Exceeds(xs, prec) == 2 * (xs[2] - xs[1]) > prec

\* myLine.build_particles(x=x_test); myLine.track(p, num_turns); myLine.record_last_track:
\* the positions recorded for a particle started at x, for each stand-in engine
\*   hold   - the particle stays where it started (unstable exactly when x > xBoundary)
\*   mirror - the particle alternates between x and Scale - x (not monotone in x)
\*   any    - an arbitrary engine: any record of positions at or just past
\*            the boundary
TrackRecords(line, x, xB) ==
  CASE line = "hold"   -> {[t \in 1..NumTurns |-> x]}
    [] line = "mirror" -> {[t \in 1..NumTurns |-> IF t % 2 = 1 THEN x ELSE Scale - x]}
    [] OTHER           -> [1..NumTurns -> {xB, xB + 1}]

Deterministic(line) == line \in {"hold", "mirror"}

IsUnstableInclusive(rec, xB) == \E t \in DOMAIN rec : rec[t] >= xB

\* (rec_test.x > xBoundary).any()
IsUnstable(rec, xB) == \E t \in DOMAIN rec : rec[t] > xB

NewIntervalSwapped(xs, x, unstable) ==
  IF unstable THEN <<x, xs[2]>> ELSE <<xs[1], x>>

\* xSearch[1] = x_test  /  xSearch[0] = x_test
NewInterval(xs, x, unstable) ==
  IF unstable THEN <<xs[1], x>> ELSE <<x, xs[2]>>

\* the list the name xSearch is bound to on entry: the default object itself
\* when the argument is omitted, the caller's list otherwise
BoundXSearch(isOmitted, dflt, arg) == IF isOmitted THEN dflt ELSE arg

\* the current value of the list xSearch refers to
XS == IF omitted THEN defaultXSearch ELSE callerXSearch

\* in-place store into the list xSearch refers to
StoreXS(xs) ==
  IF omitted
    THEN defaultXSearch' = xs /\ UNCHANGED callerXSearch
    ELSE callerXSearch' = xs /\ UNCHANGED defaultXSearch

BisInit ==
  /\ pc = "idle"
  /\ defaultXSearch = DefaultInterval
  /\ callerXSearch = DefaultInterval
  /\ omitted = FALSE
  /\ xArg = DefaultInterval
  /\ myLine \in Lines
  /\ xBoundary \in Grid
  /\ absPrecisio \in 1..MaxPrecision
  /\ x_test = 0
  /\ rec_test = [t \in 1..NumTurns |-> 0]
  /\ ret = DefaultInterval
  /\ entry = DefaultInterval
  /\ calls = <<>>
  /\ stablePts = {}
  /\ unstablePts = {}
  /\ prevDefault = NoCall

\* a call of closest_stable_unstable: xSearch is bound (to the default object
\* when omitted, to a fresh list of the caller's otherwise) and the locals are
\* unbound.  The engine and the scalar arguments are those drawn at Init: a
\* run is a sequence of calls with the same engine, xBoundary and absPrecisio.
Call ==
  /\ pc \in {"idle", "done"}
  /\ \E om \in BOOLEAN, arg \in Intervals :
       /\ omitted' = om
       /\ xArg' = IF om THEN DefaultInterval ELSE arg
       /\ callerXSearch' = IF om THEN DefaultInterval ELSE arg
       /\ entry' = BoundXSearch(om, defaultXSearch, arg)
  /\ prevDefault' =
       IF pc = "done" /\ omitted THEN [line |-> myLine, ret |-> ret, calls |-> calls]
       ELSE prevDefault
  /\ x_test' = 0
  /\ rec_test' = [t \in 1..NumTurns |-> 0]
  /\ ret' = DefaultInterval
  /\ calls' = <<>>
  /\ stablePts' = {}
  /\ unstablePts' = {}
  /\ pc' = "loop"
  /\ UNCHANGED <<defaultXSearch, myLine, xBoundary, absPrecisio>>
  /\ UNCHANGED otherVars

\* lines 48-56: the loop test holds; build a particle at the midpoint and track it
TrackStep(logging) ==
  /\ pc = "loop"
  /\ Exceeds(XS, absPrecisio)
  /\ logging => Len(calls) < MaxCalls
  /\ x_test' = MidPoint(XS[1], XS[2])
  /\ rec_test' \in TrackRecords(myLine, x_test', xBoundary)
  /\ calls' = IF logging THEN Append(calls, x_test') ELSE calls
  /\ pc' = "update"
  /\ UNCHANGED <<defaultXSearch, callerXSearch, omitted, xArg, myLine, xBoundary,
                 absPrecisio, ret, entry, stablePts, unstablePts, prevDefault>>
  /\ UNCHANGED otherVars

Track == TrackStep(TRUE)

\* the same step with the call log left out (the log is a history variable)
TrackQuiet == TrackStep(FALSE)

\* lines 59-66: classify the midpoint and move one end of the interval onto it
Update ==
  /\ pc = "update"
  /\ LET unstable == IsUnstable(rec_test, xBoundary)
     IN /\ StoreXS(NewInterval(XS, x_test, unstable))
        /\ stablePts' = IF unstable THEN stablePts ELSE stablePts \cup {x_test}
        /\ unstablePts' = IF unstable THEN unstablePts \cup {x_test} ELSE unstablePts
  /\ pc' = "loop"
  /\ UNCHANGED <<omitted, xArg, myLine, xBoundary, absPrecisio, x_test, rec_test,
                 ret, entry, calls, prevDefault>>
  /\ UNCHANGED otherVars

\* line 68: the loop test fails; return xSearch
Return ==
  /\ pc = "loop"
  /\ ~Exceeds(XS, absPrecisio)
  /\ ret' = XS
  /\ pc' = "done"
  /\ UNCHANGED <<defaultXSearch, callerXSearch, omitted, xArg, myLine, xBoundary,
                 absPrecisio, x_test, rec_test, entry, calls, stablePts,
                 unstablePts, prevDefault>>
  /\ UNCHANGED otherVars

BisIdle ==
  /\ BisInit /\ myLine = "hold" /\ xBoundary = 0 /\ absPrecisio = 1

(* ---------------------------- specifications --------------------------- *)

\* closest_stable_unstable, called any number of times
Init == BisInit /\ SepIdle /\ SortIdle /\ FPIdle

Next == Call \/ Track \/ Update \/ Return

Spec == Init /\ [][Next]_vars

NextQuiet == Call \/ TrackQuiet \/ Update \/ Return

\* the interpreter runs a started call on: each step of the loop that is
\* enabled is eventually taken (the caller need never call again)
FairSpec ==
  /\ Init /\ [][NextQuiet]_vars
  /\ WF_vars(TrackQuiet) /\ WF_vars(Update) /\ WF_vars(Return)

\* one call of separatrix_at_septum on any record
InitSeptum == BisIdle /\ SepInit /\ SortIdle /\ FPIdle

NextSeptum == SepCall

SpecSeptum == InitSeptum /\ [][NextSeptum]_vars

\* sort_stable_boundary_coordinates, then once more on its own output
InitSort == BisIdle /\ SepIdle /\ SortInit /\ FPIdle

NextSort == SortCall \/ SortAgain

SpecSort == InitSort /\ [][NextSort]_vars

\* one call of find_fixed_points on any record
InitFP == BisIdle /\ SepIdle /\ SortIdle /\ FPInit

NextFP == FPCall

SpecFP == InitFP /\ [][NextFP]_vars

(* -------------------------------- claims ------------------------------- *)

Running == pc \in {"loop", "update", "done"}

\* hi - lo <= precision, for a precision in half spacings
Narrow(xs, prec) == 2 * (xs[2] - xs[1]) <= prec

\* the engine is the threshold stand-in with b = xBoundary, and the interval
\* the call started from contains b strictly
C1_Case == myLine = "hold" /\ entry[1] < xBoundary /\ xBoundary < entry[2]

\* C1 as stated: with a tracker unstable exactly when x > b and an initial
\* interval lo0 < b < hi0, the returned interval has lo < b < hi and
\* hi - lo <= precision.
C1_StrictBracket ==
  (pc = "done" /\ C1_Case) =>
    /\ ret[1] < xBoundary /\ xBoundary < ret[2]
    /\ Narrow(ret, absPrecisio)

\* C1 as amended: the returned interval has lo <= b < hi and
\* hi - lo <= precision (a midpoint that falls on b is classified stable
\* and becomes lo).
C1_Bracket ==
  (pc = "done" /\ C1_Case) =>
    /\ ret[1] <= xBoundary /\ xBoundary < ret[2]
    /\ Narrow(ret, absPrecisio)

C1_Witness ==
  /\ pc = "done" /\ C1_Case /\ Len(calls) >= 2
  /\ ret[1] = xBoundary /\ ret[1] > entry[1] /\ ret[2] < entry[2]

\* C2: no state is shared between calls: every call starts from the interval
\* of its own arguments ([0, 1] when xSearch is omitted), and a call that
\* omits xSearch returns the same interval and issues the same build/track
\* calls as the previous such call with the same engine and arguments.
C2_NoSharedState ==
  /\ Running => entry = xArg
  /\ (pc = "done" /\ omitted /\ prevDefault.line # "none" /\ Deterministic(myLine)) =>
       (ret = prevDefault.ret /\ calls = prevDefault.calls)

\* C3: a started call terminates: from every entry to the loop, with
\* lo <= hi and precision > 0, the call eventually returns.
C3_Terminates == [](pc \in {"loop", "update"} => <>(pc = "done"))

C10_State ==
  Running =>
    /\ entry[1] <= XS[1] /\ XS[1] <= XS[2] /\ XS[2] <= entry[2]
    /\ XS[1] = entry[1] \/ XS[1] \in stablePts
    /\ XS[2] = entry[2] \/ XS[2] \in unstablePts

C10_Step ==
  /\ (pc = "loop" /\ pc' = "update") =>
       /\ 2 * x_test' - (XS[1] + XS[2]) \in {-1, 0, 1}
       /\ calls' = Append(calls, x_test')
       /\ XS' = XS
  /\ pc = "update" =>
       /\ pc' = "loop" /\ calls' = calls
       /\ IF \E t \in 1..NumTurns : rec_test[t] > xBoundary
            THEN XS' = <<XS[1], x_test>> /\ x_test \in unstablePts'
            ELSE XS' = <<x_test, XS[2]>> /\ x_test \in stablePts'
  /\ (pc \in {"loop", "update"}) => (XS'[1] >= XS[1] /\ XS'[2] <= XS[2])

\* C10: the step invariant of the bisection for an arbitrary tracker: each
\* iteration tracks one particle built at the midpoint and moves exactly one
\* end onto it (hi when a recorded position strictly exceeds xBoundary, lo
\* otherwise); so lo0 <= lo <= hi <= hi0, lo never decreases, hi never
\* increases, lo is lo0 or a point classified stable and hi is hi0 or a
\* point classified unstable.
C10_StepInvariant == [](C10_State) /\ [][C10_Step]_vars

C10_Witness ==
  /\ pc = "done" /\ myLine = "any" /\ Len(calls) >= 2
  /\ XS[1] # entry[1] /\ XS[1] \in stablePts
  /\ XS[2] # entry[2] /\ XS[2] \in unstablePts

\* i (0-based) is the first index minimising |x - xB|
FirstClosest(x, xB, i) ==
  /\ i \in 0..(Len(x) - 1)
  /\ \A j \in 0..(Len(x) - 1) : Abs(x[i + 1] - xB) <= Abs(x[j + 1] - xB)
  /\ \A j \in 0..(i - 1) : Abs(x[i + 1] - xB) < Abs(x[j + 1] - xB)

\* C4: when the closest-turn index is within 3 of either end of the record,
\* the access to the +-3 neighbours fails and no fit result is returned.
C4_EdgeRaises ==
  s_pc = "done" =>
    \A i \in 0..(Len(rec_sep.x) - 1) :
      (FirstClosest(rec_sep.x, s_xBoundary, i) /\ (i < 3 \/ i > Len(rec_sep.x) - 1 - 3))
        => separatrix_results.status = "IndexError"

OnLine(rec, k, c) == \A j \in 1..Len(rec.x) : rec.px[j] = k * rec.x[j] + c

\* the samples lie on px = k*x + c, and the closest turn i has both
\* neighbours inside the record, at different positions
C5_Case(k, c, i) ==
  /\ OnLine(rec_sep, k, c)
  /\ FirstClosest(rec_sep.x, s_xBoundary, i)
  /\ i - 3 >= 0 /\ i + 3 <= Len(rec_sep.x) - 1
  /\ rec_sep.x[i - 3 + 1] # rec_sep.x[i + 3 + 1]

\* C5: on a linear trajectory px = k*x + c whose closest turn has both +-3
\* neighbours inside the record at different positions, the fit returns
\* slope k, px_at_septum = k*xBoundary + c and closer_turn = the first index
\* minimising |x - xBoundary|.
C5_LinearFit ==
  s_pc = "done" =>
    \A k \in Slopes, c \in Intercepts, i \in 0..(Len(rec_sep.x) - 1) :
      C5_Case(k, c, i) =>
        /\ separatrix_results.status = "ok"
        /\ separatrix_results.slope[1] = k * separatrix_results.slope[2]
        /\ separatrix_results.px_at_septum[1] =
             (k * s_xBoundary + c) * separatrix_results.px_at_septum[2]
        /\ separatrix_results.closer_turn = i

C5_Witness ==
  /\ s_pc = "done" /\ separatrix_results.status = "ok"
  /\ \E k \in Slopes, c \in Intercepts, i \in 0..(Len(rec_sep.x) - 1) :
       /\ C5_Case(k, c, i)
       /\ \E j \in (i + 1)..(Len(rec_sep.x) - 1) :
            Abs(rec_sep.x[j + 1] - s_xBoundary) = Abs(rec_sep.x[i + 1] - s_xBoundary)

\* the angle sequence of a returned dictionary
AnglesOf(d) ==
  [k \in 1..Len(d.x_norm_triang) |-> Theta(d.x_norm_triang[k], d.px_norm_triang[k])]

NonDecreasing(th) == \A k \in 1..(Len(th) - 1) : ~ThetaLess(th[k + 1], th[k])

\* d holds the four input arrays, all reordered by the index array p
ReorderedBy(d, p) ==
  \A k \in 1..Len(p) :
    /\ d.x_triang[k] = tbt_triang.x[p[k]]
    /\ d.px_triang[k] = tbt_triang.px[p[k]]
    /\ d.x_norm_triang[k] = nc_tbt_triang.x_norm[p[k]]
    /\ d.px_norm_triang[k] = nc_tbt_triang.px_norm[p[k]]

\* C6: the sort reorders the four arrays by one and the same permutation of
\* the turn indices, and the angles of the output are non-decreasing.
C6_SortedPermutation ==
  t_pc \in {"sorted", "resorted"} =>
    /\ Len(sorted_coordinates.x_triang) = Len(tbt_triang.x)
    /\ Len(sorted_coordinates.px_triang) = Len(tbt_triang.x)
    /\ Len(sorted_coordinates.x_norm_triang) = Len(tbt_triang.x)
    /\ Len(sorted_coordinates.px_norm_triang) = Len(tbt_triang.x)
    /\ \E p \in Perms(Len(tbt_triang.x)) : ReorderedBy(sorted_coordinates, p)
    /\ NonDecreasing(AnglesOf(sorted_coordinates))

C6_Witness ==
  /\ t_pc = "sorted" /\ Len(tbt_triang.x) >= 3
  /\ sorted_coordinates.x_norm_triang # nc_tbt_triang.x_norm
  /\ sorted_coordinates.px_triang # tbt_triang.px
  /\ \E k \in 1..2 : ThetaLess(AnglesOf(sorted_coordinates)[k], AnglesOf(sorted_coordinates)[k + 1])

SameAngle(a, b) == ~ThetaLess(a, b) /\ ~ThetaLess(b, a)

DistinctAngles(th) ==
  \A j, k \in 1..Len(th) : j # k => ~SameAngle(th[j], th[k])

\* C7 as stated: sorting the sorted output again returns all four arrays
\* unchanged, also when several samples share an angle.
C7_Idempotent ==
  t_pc = "resorted" => resorted_coordinates = sorted_coordinates

\* C7 as amended: sorting the sorted output again returns the same angle
\* sequence, and all four arrays unchanged when no two samples share an
\* angle (samples of equal angle may come back in another order).
C7_IdempotentDistinct ==
  t_pc = "resorted" =>
    /\ Len(AnglesOf(resorted_coordinates)) = Len(AnglesOf(sorted_coordinates))
    /\ \A k \in 1..Len(AnglesOf(sorted_coordinates)) :
         SameAngle(AnglesOf(resorted_coordinates)[k], AnglesOf(sorted_coordinates)[k])
    /\ DistinctAngles(AnglesOf(sorted_coordinates)) =>
         resorted_coordinates = sorted_coordinates

C7_Witness ==
  /\ t_pc = "resorted" /\ Len(tbt_triang.x) >= 3
  /\ DistinctAngles(AnglesOf(sorted_coordinates))
  /\ sorted_coordinates.x_norm_triang # nc_tbt_triang.x_norm
  /\ resorted_coordinates = sorted_coordinates

FPz == fp_nc_tbt_triang.z_norm

\* the samples (1-based) strictly inside the search disk around centre c
Disk(c) ==
  {i \in 1..Len(FPz) :
     Within(FPz[i], c, threshold, Norm2(fixed_points.z_norm_fp[1]))}

DiskPlus == Disk(RotPlus(fixed_points.z_norm_fp[1]))

DiskMinus == Disk(RotMinus(fixed_points.z_norm_fp[1]))

\* fixed point k of the result is the sample of turn i, in both spaces
IsTurn(k, i) ==
  /\ fixed_points.z_norm_fp[k] = FPz[i]
  /\ fixed_points.x_fp[k] = fp_tbt_triang.x[i]
  /\ fixed_points.px_fp[k] = fp_tbt_triang.px[i]

\* sample i has the largest amplitude among the samples of D
Largest(i, D) == i \in D /\ \A j \in D : Norm2(FPz[i]) >= Norm2(FPz[j])

C8_General ==
  \E i1, i2, i3 \in 1..Len(FPz) :
    /\ IsTurn(1, i1) /\ IsTurn(2, i2) /\ IsTurn(3, i3)
    /\ Largest(i1, 1..Len(FPz))
    /\ (\E j \in DiskPlus : Norm2(FPz[j]) > 0) => Largest(i2, DiskPlus)
    /\ (\E j \in DiskMinus : Norm2(FPz[j]) > 0) => Largest(i3, DiskMinus)

\* the record holds the samples of amplitude 6 at 0, 120 and 240 degrees,
\* and all its other samples have near-zero amplitude
Symmetric3 ==
  /\ \A q \in {P0, P120, P240} : \E i \in 1..Len(FPz) : FPz[i] = q
  /\ \A i \in 1..Len(FPz) : FPz[i] \in {P0, P120, P240} \/ Norm2(FPz[i]) <= 1

FirstOf3 ==
  FPz[CHOOSE i \in 1..Len(FPz) :
        FPz[i] \in {P0, P120, P240} /\ \A j \in 1..(i - 1) : FPz[j] \notin {P0, P120, P240}]

\* C8 as stated: the first fixed point is the sample of largest amplitude,
\* the second (third) the sample of largest amplitude strictly inside the
\* disk around the first rotated by +120 (-120) degrees when that disk holds
\* a sample of non-zero amplitude, physical and normalized coordinates of
\* each being those of one turn; and three samples of equal amplitude at
\* 0, 120, 240 degrees among near-zero samples come back as (0, 120, 240).
C8_FixedPoints ==
  f_pc = "done" =>
    /\ C8_General
    /\ Symmetric3 => fixed_points.z_norm_fp = <<P0, P120, P240>>

\* C8 as amended: the same, except that the three symmetric samples come
\* back starting from the one that comes first in the record, followed by
\* its rotations by +120 and -120 degrees: (0, 120, 240) exactly when the
\* 0-degree sample precedes the other two.
C8_FixedPointsFromFirst ==
  f_pc = "done" =>
    /\ C8_General
    /\ Symmetric3 =>
         /\ fixed_points.z_norm_fp = <<FirstOf3, RotPlus(FirstOf3), RotMinus(FirstOf3)>>
         /\ (fixed_points.z_norm_fp = <<P0, P120, P240>>) <=> (FirstOf3 = P0)

C8_Witness ==
  /\ f_pc = "done" /\ Symmetric3 /\ Len(FPz) >= 4
  /\ FPz[1] \notin {P0, P120, P240}
  /\ fixed_points.z_norm_fp = <<P0, P120, P240>>
  /\ fixed_points.x_fp[1] # fixed_points.x_fp[2]

\* C9: when no sample lies inside the disk around the first fixed point
\* rotated by +120 (-120) degrees, the second (third) fixed point returned
\* is the sample at index 0, and the call returns its dictionary.
C9_EmptyDiskIndex0 ==
  f_pc = "done" =>
    /\ Len(fixed_points.z_norm_fp) = 3
    /\ Len(fixed_points.x_fp) = 3 /\ Len(fixed_points.px_fp) = 3
    /\ DiskPlus = {} => IsTurn(2, 1)
    /\ DiskMinus = {} => IsTurn(3, 1)

C9_Witness ==
  /\ f_pc = "done" /\ Len(FPz) >= 3
  /\ DiskPlus = {} /\ DiskMinus # {}
  /\ Norm2(FPz[1]) > 0 /\ Norm2(FPz[1]) < Norm2(fixed_points.z_norm_fp[1])
  /\ FPz[Len(FPz)] # FPz[1]
  /\ IsTurn(2, 1)

====
